---- MODULE Spec2Model ----
(***************************************************************************)
(* The memory store of .agent/skills/claude-mem/scripts/memory_handler.py: *)
(* one SQLite table `memories` and the operations save_memory,             *)
(* search_memories, delete_memory and wipe_all, reached either through the *)
(* command line (the __main__ block) or by calling the functions.          *)
(*                                                                         *)
(* A text value is a sequence of one-character strings, Python's None is   *)
(* the value None below, and an optional integer is <<>> or <<n>>.         *)
(***************************************************************************)
EXTENDS Integers, Sequences, FiniteSets, TLC

VARIABLES
    memories,         \* the rows of table memories: [id, tags, content, timestamp]
    sqlite_sequence,  \* AUTOINCREMENT's record of the largest id ever assigned
    clock,            \* CURRENT_TIMESTAMP, in whole seconds, at the latest INSERT
    last,             \* the latest invocation: what was asked, what ran, what it printed
    assigned,         \* history: the ids assigned by INSERT, in order
    deleted           \* history: the ids of rows removed by delete_memory

vars == <<memories, sqlite_sequence, clock, last, assigned, deleted>>

\* ------------------------------------------------------------------ bounds

MaxSaves == 3       \* INSERTs in a behaviour of Spec
MaxCliSaves == 1    \* INSERTs in a behaviour of SpecCli
MaxBulkSaves == 6   \* INSERTs in a behaviour of SpecBulk
MaxClock == 1       \* the seconds that pass in a behaviour

\* ------------------------------------------------------------------ values

None == <<"None">>

general == <<"g", "e", "n", "e", "r", "a", "l">>

Limit == 5

\* str.lower() / str.upper() and SQLite's ASCII case folding, on the letters used
lower_char(c) ==
    CASE c = "A" -> "a"
      [] c = "B" -> "b"
      [] c = "X" -> "x"
      [] c = "Y" -> "y"
      [] c = "N" -> "n"
      [] OTHER -> c

upper_char(c) ==
    CASE c = "a" -> "A"
      [] c = "b" -> "B"
      [] c = "x" -> "X"
      [] c = "y" -> "Y"
      [] c = "n" -> "N"
      [] c = "g" -> "G"
      [] c = "e" -> "E"
      [] c = "r" -> "R"
      [] c = "l" -> "L"
      [] OTHER -> c

lower(s) == [i \in 1..Len(s) |-> lower_char(s[i])]

upper(s) == [i \in 1..Len(s) |-> upper_char(s[i])]

\* Python truthiness of an optional text: None and "" are falsy
truthy(s) == s # None /\ Len(s) > 0

\* a variant of truthy_int: args.delete is not None
given_int(n) == n # <<>>

\* Python truthiness of an optional integer: None and 0 are falsy
truthy_int(n) == n # <<>> /\ n[1] # 0

Max(a, b) == IF a >= b THEN a ELSE b

\* ------------------------------------------------------------------ SQL

\* x LIKE p: % matches any run of characters, _ any one character, any other
\* character matches itself up to ASCII case
RECURSIVE like(_, _)
like(p, s) ==
    IF Len(p) = 0 THEN Len(s) = 0
    ELSE IF p[1] = "%" THEN
        \E k \in 0..Len(s) : like(Tail(p), SubSeq(s, k + 1, Len(s)))
    ELSE IF Len(s) = 0 THEN FALSE
    ELSE IF p[1] = "_" THEN like(Tail(p), Tail(s))
    ELSE lower_char(p[1]) = lower_char(s[1]) /\ like(Tail(p), Tail(s))

\* f'%{query}%'
pattern(query) == <<"%">> \o query \o <<"%">>

\* a variant of where: the second parameter bound to '%' instead of the pattern
where_any_content(r, query) ==
    \/ r.tags # None /\ like(pattern(query), r.tags)
    \/ like(<<"%">>, r.content)

\* WHERE tags LIKE ? OR content LIKE ?   (a NULL operand makes LIKE NULL)
where(r, query) ==
    \/ r.tags # None /\ like(pattern(query), r.tags)
    \/ like(pattern(query), r.content)

\* ORDER BY timestamp DESC LIMIT n: the order of rows of equal timestamp is
\* not determined by the statement, so every such order is a possible result
RECURSIVE order_by_limit(_, _)
order_by_limit(rows, n) ==
    IF n = 0 \/ rows = {} THEN {<<>>}
    ELSE LET top == {r \in rows : \A o \in rows : o.timestamp <= r.timestamp}
         IN  UNION {{<<r>> \o s : s \in order_by_limit(rows \ {r}, n - 1)} : r \in top}

\* cursor.fetchall(): the possible results of the SELECT
fetchall(query) == order_by_limit({r \in memories : where(r, query)}, Limit)

MaxId(rows) == IF rows = {} THEN 0 ELSE CHOOSE i \in {r.id : r \in rows} : \A r \in rows : r.id <= i

\* a variant of next_id: INTEGER PRIMARY KEY without AUTOINCREMENT
next_id_rowid == MaxId(memories) + 1

\* INTEGER PRIMARY KEY AUTOINCREMENT: one more than the largest id that ever existed
next_id == Max(sqlite_sequence, MaxId(memories)) + 1

\* variants of delete_where: WHERE id >= ? and WHERE id <= ?
delete_where_from(mem_id) == {r \in memories : r.id >= mem_id}

delete_where_upto(mem_id) == {r \in memories : r.id <= mem_id}

\* DELETE FROM memories WHERE id = ?
delete_where(mem_id) == {r \in memories : r.id = mem_id}

\* a variant of not_null: content TEXT, without the constraint
not_null_off(text) == TRUE

\* content TEXT NOT NULL
not_null(text) == text # None

\* input(...) of wipe_all, and confirm.lower() == 'y'
Answers == {<<"y">>, <<"Y">>, <<"n">>, <<"y", "e", "s">>, <<>>}

\* a variant of confirmed: confirm.lower() != 'n'
confirmed_unless_n(confirm) == lower(confirm) # <<"n">>

confirmed(confirm) == lower(confirm) = <<"y">>

\* a variant of tags_or_general: args.tags if args.tags is not None else "general"
tags_if_given(tags) == IF tags # None THEN tags ELSE general

\* args.tags or "general"
tags_or_general(tags) == IF truthy(tags) THEN tags ELSE general

\* ------------------------------------------------------------------ output

Line(kind, id, tags, text) == [kind |-> kind, id |-> id, tags |-> tags, text |-> text]

SavedLine(tags) == Line("saved", 0, tags, <<>>)
HeaderLine(query) == Line("header", 0, <<>>, query)
RowLine(r) == Line("row", r.id, upper(r.tags), r.content)
NoneLine(query) == Line("none", 0, <<>>, query)
DeletedLine(mem_id) == Line("deleted", mem_id, <<>>, <<>>)
PromptLine == Line("prompt", 0, <<>>, <<>>)
WipedLine == Line("wiped", 0, <<>>, <<>>)

\* a variant of report: nothing printed when there are no results
report_silent(query, results) ==
    IF results # <<>>
    THEN <<HeaderLine(query)>> \o [i \in 1..Len(results) |-> RowLine(results[i])]
    ELSE <<>>

\* print(...) of search_memories: a header and one line per row, or the notice
report(query, results) ==
    IF results # <<>>
    THEN <<HeaderLine(query)>> \o [i \in 1..Len(results) |-> RowLine(results[i])]
    ELSE <<NoneLine(query)>>

\* who invoked the operation: a direct call (no command line), or __main__ with args
NoArgs == [save |-> None, tags |-> None, search |-> None, delete |-> <<>>, wipe |-> FALSE]

Direct == [via |-> "call", args |-> NoArgs]

Ran(inv, op, id, text, out, err) ==
    [via |-> inv.via, args |-> inv.args,
     op |-> op, id |-> id, text |-> text, out |-> out, err |-> err]

\* the rows a search printed
Printed(l) == SelectSeq(l.out, LAMBDA line : line.kind = "row")

\* ------------------------------------------------------------------ operations

Init ==
    /\ memories = {}
    /\ sqlite_sequence = 0
    /\ clock = 0
    /\ last = Ran(Direct, "init_db", 0, <<>>, <<>>, "")
    /\ assigned = <<>>
    /\ deleted = {}

\* CREATE TABLE IF NOT EXISTS: the table exists from Init on, so nothing changes
init_db == TRUE

save_memory(text, tags, inv) ==
    IF ~not_null(text)
    THEN \* NOT NULL constraint failed: the INSERT is rolled back, nothing is printed
         /\ last' = Ran(inv, "save", 0, <<>>, <<>>, "IntegrityError")
         /\ UNCHANGED <<memories, sqlite_sequence, clock, assigned, deleted>>
    ELSE \E now \in clock..MaxClock :
         LET id == next_id
             row == [id |-> id, tags |-> tags, content |-> text, timestamp |-> now]
         IN  /\ memories' = memories \cup {row}
             /\ sqlite_sequence' = id
             /\ clock' = now
             /\ assigned' = Append(assigned, id)
             /\ last' = Ran(inv, "save", id, text, <<SavedLine(tags)>>, "")
             /\ UNCHANGED deleted

search_memories(query, inv) ==
    /\ \E results \in fetchall(query) :
          last' = Ran(inv, "search", 0, query, report(query, results), "")
    /\ UNCHANGED <<memories, sqlite_sequence, clock, assigned, deleted>>

delete_memory(mem_id, inv) ==
    /\ memories' = memories \ delete_where(mem_id)
    /\ deleted' = deleted \cup {r.id : r \in delete_where(mem_id)}
    /\ last' = Ran(inv, "delete", mem_id, <<>>, <<DeletedLine(mem_id)>>, "")
    /\ UNCHANGED <<sqlite_sequence, clock, assigned>>

wipe_all(inv) ==
    \E confirm \in Answers :
        IF confirmed(confirm)
        THEN /\ memories' = {}
             /\ last' = Ran(inv, "wipe", 0, confirm, <<PromptLine, WipedLine>>, "")
             /\ UNCHANGED <<sqlite_sequence, clock, assigned, deleted>>
        ELSE /\ last' = Ran(inv, "wipe", 0, confirm, <<PromptLine>>, "")
             /\ UNCHANGED <<memories, sqlite_sequence, clock, assigned, deleted>>

main(args) ==
    LET inv == [via |-> "cli", args |-> args]
    IN  /\ init_db
        /\ IF truthy(args.save)
           THEN save_memory(args.save, tags_or_general(args.tags), inv)
           ELSE IF truthy(args.search)
           THEN search_memories(args.search, inv)
           ELSE IF truthy_int(args.delete)
           THEN delete_memory(args.delete[1], inv)
           ELSE IF args.wipe
           THEN wipe_all(inv)
           ELSE /\ last' = Ran(inv, "none", 0, <<>>, <<>>, "")
                /\ UNCHANGED <<memories, sqlite_sequence, clock, assigned, deleted>>

\* ------------------------------------------------------------------ inputs

Content == {<<"A", "x", "b">>}
Tags == {<<"a", "b">>}
Queries == {<<>>, <<"a", "_", "b">>, <<"x", "b">>, <<"a", "%", "b">>}

\* the store's operations, called with every kind of argument
CallSave(max) ==
    \E text \in {None, <<>>} \cup Content, tags \in {<<>>} \cup Tags :
        /\ sqlite_sequence < max
        /\ save_memory(text, tags, Direct)

CallSearch == \E query \in Queries : search_memories(query, Direct)

CallDelete == \E mem_id \in 0..MaxSaves : delete_memory(mem_id, Direct)

CallWipe == wipe_all(Direct)

Next == CallSave(MaxSaves) \/ CallSearch \/ CallDelete \/ CallWipe

Spec == Init /\ [][Next]_vars

\* the command line, with every combination of flags
CliArgs ==
    [save : {None, <<>>} \cup Content,
     tags : {None, <<>>} \cup Tags,
     search : {None, <<>>, <<"a", "_", "b">>},
     delete : {<<>>, <<0>>, <<1>>},
     wipe : BOOLEAN]

Cli ==
    \E args \in CliArgs :
        /\ truthy(args.save) => sqlite_sequence < MaxCliSaves
        /\ main(args)

NextCli == Cli \/ CallSave(MaxCliSaves)

SpecCli == Init /\ [][NextCli]_vars

\* many notes saved within a few seconds, and searched
BulkSave ==
    /\ sqlite_sequence < MaxBulkSaves
    /\ save_memory(<<"b">>, <<"t">>, Direct)

BulkSearch == \E query \in {<<"b">>, <<"x">>} : search_memories(query, Direct)

NextBulk == BulkSave \/ BulkSearch

SpecBulk == Init /\ [][NextBulk]_vars

\* ------------------------------------------------------------------ claims

Ids(rows) == {r.id : r \in rows}

\* every contiguous piece of s, the empty one included
Substrings(s) == {SubSeq(s, i, j) : i \in 1..(Len(s) + 1), j \in 0..Len(s)}

\* q occurs in s, character for character
Contains(s, q) == \E i \in 0..(Len(s) - Len(q)) : SubSeq(s, i + 1, i + Len(q)) = q

\* the row the latest invocation saved
SavedRows == {r \in memories : last.op = "save" /\ last.err = "" /\ r.id = last.id}

\* C1: right after save(content, tags), a search for any substring of the saved
\* content or tags returns the saved Memory, whatever the SELECT's result is.
C1_SavedIsFound ==
    \A r \in SavedRows :
        \A q \in Substrings(r.content) \cup Substrings(r.tags) :
            \A results \in fetchall(q) :
                \E i \in 1..Len(results) : results[i] = r

\* C2: a search prints at most 5 Memories, a Memory of a later save never after
\* one of an earlier save, and every matching Memory left out was saved before
\* every Memory printed.
C2_NewestFirst ==
    last.op = "search" =>
        LET rows == Printed(last)
            left == {r \in memories : where(r, last.text) /\ \A i \in 1..Len(rows) : rows[i].id # r.id}
        IN  /\ Len(rows) <= 5
            /\ \A i, j \in 1..Len(rows) : i < j => rows[i].id > rows[j].id
            /\ \A r \in left : \A i \in 1..Len(rows) : r.id < rows[i].id

\* the Memory a printed row shows
Shown(line) == {r \in memories : r.id = line.id}

\* q occurs in s when letters are compared without regard to ASCII case, each _
\* of q stands for any one character and each % of q for any run of characters:
\* pos[i] is the place in s of the last character taken after q[1..i]
LikeContains(s, q) ==
    \E pos \in [0..Len(q) -> 0..Len(s)] :
        \A i \in 1..Len(q) :
            IF q[i] = "%" THEN pos[i] >= pos[i - 1]
            ELSE /\ pos[i] = pos[i - 1] + 1
                 /\ q[i] = "_" \/ lower_char(q[i]) = lower_char(s[pos[i]])

\* C3 as claimed: a search prints a Memory only if its tags or its content
\* contain the query character for character (case-sensitive, no wildcards).
C3_LiteralOnly ==
    last.op = "search" =>
        \A i \in 1..Len(Printed(last)) :
            /\ Shown(Printed(last)[i]) # {}
            /\ \A r \in Shown(Printed(last)[i]) :
                  Contains(r.tags, last.text) \/ Contains(r.content, last.text)

\* C3 as amended: a search prints a Memory only if its tags or its content
\* contain the query up to ASCII letter case, with _ and % of the query read
\* as wildcards.
C3_LikeOnly ==
    last.op = "search" =>
        \A i \in 1..Len(Printed(last)) :
            /\ Shown(Printed(last)[i]) # {}
            /\ \A r \in Shown(Printed(last)[i]) :
                  LikeContains(r.tags, last.text) \/ LikeContains(r.content, last.text)

\* a search printed a Memory that does not contain the query character for character
C3_Witness ==
    /\ last.op = "search"
    /\ \E i \in 1..Len(Printed(last)) :
          \E r \in Shown(Printed(last)[i]) :
              ~Contains(r.tags, last.text) /\ ~Contains(r.content, last.text)

\* C4: delete(id) with an id no stored Memory has leaves the table as it was
\* and raises no error.
C4_DeleteAbsent ==
    [][(last'.op = "delete" /\ last'.id \notin Ids(memories))
         => (memories' = memories /\ last'.err = "")]_vars

\* a delete of an id that never was in the table, with two or more Memories stored
C4_Witness ==
    /\ last.op = "delete"
    /\ last.id \notin Ids(memories) \cup deleted
    /\ Cardinality(memories) >= 2

\* C5: wipe_all empties the table when the answer is y or Y, and leaves every
\* Memory as it was, without an error, on any other answer.
C5_WipeConfirmed ==
    [][last'.op = "wipe"
         => /\ IF last'.text \in {<<"y">>, <<"Y">>}
               THEN memories' = {}
               ELSE memories' = memories
            /\ last'.err = ""]_vars

\* the answer "yes" declined the wipe of a table that holds Memories
C5_Witness ==
    /\ last.op = "wipe"
    /\ last.text = <<"y", "e", "s">>
    /\ memories # {}

\* C6 as claimed: a command-line save without --tags stores tags "general", and
\* one with --tags stores exactly the given text.
C6_TagsAsGiven ==
    (last.via = "cli" /\ last.op = "save") =>
        /\ SavedRows # {}
        /\ \A r \in SavedRows :
              r.tags = IF last.args.tags = None THEN general ELSE last.args.tags

\* C6 as amended: a command-line save without --tags, or with an empty --tags
\* text, stores tags "general"; one with a non-empty --tags text stores that text.
C6_TagsOrGeneral ==
    (last.via = "cli" /\ last.op = "save") =>
        /\ SavedRows # {}
        /\ \A r \in SavedRows :
              r.tags = IF last.args.tags \in {None, <<>>} THEN general ELSE last.args.tags

\* a command-line save with an empty --tags text stored tags "general"
C6_Witness ==
    /\ last.via = "cli"
    /\ last.op = "save"
    /\ last.args.tags = <<>>
    /\ \E r \in SavedRows : r.tags = general

\* C7: no two stored Memories share an id, and each save assigns an id greater
\* than every id assigned before it, whether or not that Memory is still stored.
C7_IdsIncrease ==
    /\ \A r1, r2 \in memories : r1.id = r2.id => r1 = r2
    /\ \A i, j \in 1..Len(assigned) : i < j => assigned[i] < assigned[j]

\* a save that followed the delete of the only Memory stored
C7_Witness ==
    /\ last.op = "save"
    /\ last.id = 2
    /\ deleted = {1}
    /\ Ids(memories) = {2}

\* C8 as claimed: every stored Memory has content that is not null and not empty.
C8_ContentNonEmpty ==
    \A r \in memories : r.content # None /\ Len(r.content) > 0

\* C8 as amended: every stored Memory has content that is not null, and a
\* Memory saved through the command line has content that is not empty.
C8_ContentNotNull ==
    /\ \A r \in memories : r.content # None
    /\ last.via = "cli" => \A r \in SavedRows : Len(r.content) > 0

\* a Memory with empty content is stored
C8_Witness == \E r \in memories : r.content = <<>>

\* no row was printed
NoRows(l) == Len(Printed(l)) = 0

\* a search invocation: a call of search_memories, or a command line whose only flag is --search
SearchInvocation(l) ==
    \/ l.op = "search"
    \/ /\ l.via = "cli"
       /\ l.args.search # None
       /\ l.args.save = None /\ l.args.tags = None /\ l.args.delete = <<>> /\ ~l.args.wipe

\* C9 as claimed: a search invocation that yields no rows, an empty query
\* included, prints the "no results" notice, raises no error and leaves the
\* table as it was.
C9_NoticeAlways ==
    [][(SearchInvocation(last') /\ NoRows(last'))
         => /\ \E q \in {last'.text, last'.args.search} : last'.out = <<NoneLine(q)>>
            /\ last'.err = ""
            /\ memories' = memories]_vars

\* C9 as amended: a search that runs and yields no rows prints the "no results"
\* notice, raises no error and leaves the table as it was; a command line whose
\* --search text is empty runs no search and prints no notice.
C9_NoticeWhenRun ==
    [][/\ (last'.op = "search" /\ NoRows(last'))
            => /\ last'.out = <<NoneLine(last'.text)>>
               /\ last'.err = ""
               /\ memories' = memories
               /\ sqlite_sequence' = sqlite_sequence
       /\ (last'.via = "cli" /\ last'.args.search = <<>>)
            => /\ last'.op # "search"
               /\ \A i \in 1..Len(last'.out) : last'.out[i].kind # "none"]_vars

\* a search found nothing in a table that holds Memories
C9_Witness ==
    /\ last.op = "search"
    /\ last.out = <<NoneLine(last.text)>>
    /\ memories # {}

\* C10: delete(id) removes the Memory with that id and no other, and from then
\* on no search prints a Memory with that id, whatever operations follow.
C10_DeletedStaysGone ==
    [][/\ last'.op = "delete" => memories' = {r \in memories : r.id # last'.id}
       /\ last'.op = "search"
            => \A i \in 1..Len(Printed(last')) : Printed(last')[i].id \notin deleted']_vars

\* a search that printed Memories after a delete had removed an earlier one
C10_Witness ==
    /\ last.op = "search"
    /\ ~NoRows(last)
    /\ \E d \in deleted : d < sqlite_sequence

\* the first of save, search, delete, wipe whose flag carries a non-empty text,
\* a non-zero id or the set wipe flag; "none" when no flag does
FirstTruthy(args) ==
    IF args.save \notin {None, <<>>} THEN "save"
    ELSE IF args.search \notin {None, <<>>} THEN "search"
    ELSE IF args.delete \notin {<<>>, <<0>>} THEN "delete"
    ELSE IF args.wipe THEN "wipe"
    ELSE "none"

\* C11: a command-line invocation runs at most one of save, search, delete and
\* wipe, the first of them in that order whose flag is truthy, and the table
\* changes as that one operation changes it: an invocation that saves or
\* searches removes no Memory, whatever other flags it carries.
C11_FirstTruthyOnly ==
    [][last'.via = "cli" =>
         /\ last'.op = FirstTruthy(last'.args)
         /\ CASE FirstTruthy(last'.args) = "save" ->
                    /\ memories \subseteq memories'
                    /\ Cardinality(memories' \ memories) = 1
                    /\ deleted' = deleted
              [] FirstTruthy(last'.args) = "search" ->
                    /\ memories' = memories
                    /\ deleted' = deleted
              [] FirstTruthy(last'.args) = "delete" ->
                    memories' = {r \in memories : r.id # last'.args.delete[1]}
              [] FirstTruthy(last'.args) = "wipe" ->
                    /\ memories' \in {memories, {}}
                    /\ \E i \in 1..Len(last'.out) : last'.out[i].kind = "prompt"
              [] OTHER ->
                    /\ memories' = memories
                    /\ last'.out = <<>>]_vars

\* a command line with --search, --delete of a stored id and --wipe ran the
\* search, and the Memory is still stored
C11_Witness ==
    /\ last.via = "cli"
    /\ last.op = "search"
    /\ last.args.wipe
    /\ last.args.delete # <<>>
    /\ last.args.delete[1] \in Ids(memories)

====
